---------------------------- MODULE Spec2Model ----------------------------
(***************************************************************************)
(* Model of trading_bot.py: one process invocation places one order        *)
(* (MARKET, LIMIT or STOP_LIMIT) through a Binance futures client.         *)
(*                                                                         *)
(* Numbers.  decimal.Decimal values are modelled as exact fractions        *)
(* [num, den] in lowest terms.  The context precision set at line 132      *)
(* (18 significant digits) rounds a quotient such as 1/3, but for the      *)
(* operands enumerated here (a handful of digits) the rounding error is    *)
(* below 10^-17 while a non-integral exact quotient required_qty/step_size *)
(* is at least 1/(10 * price * step) away from the nearest integer, so     *)
(* to_integral_value(ROUND_UP) and everything computed after it are the    *)
(* same as with exact quotients.  Operands with 16 or more significant     *)
(* digits are outside the model.                                           *)
(*                                                                         *)
(* A Python float is modelled as [repr, drift]: repr is the decimal that   *)
(* str() prints (the shortest decimal that reads back as the same double), *)
(* drift is the sign of (exact binary value - repr).                       *)
(***************************************************************************)
EXTENDS Integers, Sequences, FiniteSets, TLC

\* ---------------------------------------------------------------- bounds
MaxPrice == 5
MaxStep == 3
MaxQty == 5

\* ------------------------------------------------------- decimal.Decimal
RECURSIVE GCD(_, _)
GCD(a, b) == IF b = 0 THEN a ELSE GCD(b, a % b)

Abs(n) == IF n < 0 THEN -n ELSE n

\* The fraction n/d (d # 0) in lowest terms with a positive denominator.
Dec(n, d) ==
    LET g == GCD(Abs(n), Abs(d))
        s == IF d < 0 THEN -1 ELSE 1
    IN  [num |-> s * (n \div g), den |-> s * (d \div g)]

\* Decimal(text) of a decimal literal with one fractional digit, given as its
\* count of tenths: "0.3" is 3, "-0.1" is -1, "1.2" is 12.
DecimalOfTenths(k) == Dec(k, 10)

\* Decimal(text) of an integer literal: "3" is 3.
DecimalOfInt(k) == Dec(k, 1)

DecIsZero(a) == a.num = 0

\* a / b; the caller handles b = 0 (DivisionByZero / InvalidOperation).
DecDiv(a, b) == Dec(a.num * b.den, a.den * b.num)

DecMul(a, b) == Dec(a.num * b.num, a.den * b.den)

DecLess(a, b) == a.num * b.den < b.num * a.den

DecLeq(a, b) == a.num * b.den <= b.num * a.den

\* to_integral_value with rounding=ROUND_HALF_UP: to nearest.
ToIntegralRoundNearest(a) ==
    Dec((IF a.num < 0 THEN -1 ELSE 1) * ((2 * Abs(a.num) + a.den) \div (2 * a.den)), 1)

\* to_integral_value(rounding=ROUND_UP): away from zero.
ToIntegralRoundUp(a) ==
    Dec((IF a.num < 0 THEN -1 ELSE 1) * ((Abs(a.num) + a.den - 1) \div a.den), 1)

\* ------------------------------------------------------------------ float
\* floor(log2(n/d)) for n, d > 0.
RECURSIVE Log2Floor(_, _)
Log2Floor(n, d) ==
    IF n >= d
    THEN IF n < 2 * d THEN 0 ELSE 1 + Log2Floor(n, 2 * d)
    ELSE Log2Floor(2 * n, d) - 1

RECURSIVE Pow2Mod(_, _)
Pow2Mod(e, m) == IF e = 0 THEN 1 % m ELSE (2 * Pow2Mod(e - 1, m)) % m

\* Sign of (nearest binary64 - n/d) for n, d > 0: the significand is
\* round-half-even(n * 2^e / d) with e chosen so that it has 53 bits.
DriftPos(n, d) ==
    LET e    == 52 - Log2Floor(n, d)
        r2   == ((n % (2 * d)) * Pow2Mod(e, 2 * d)) % (2 * d)
        odd  == r2 >= d
        rem  == r2 % d
    IN  IF rem = 0 THEN 0
        ELSE IF 2 * rem < d THEN -1
        ELSE IF 2 * rem > d THEN 1
        ELSE IF odd THEN 1 ELSE -1

Drift(a) ==
    IF a.num = 0 THEN 0
    ELSE IF a.num > 0 THEN DriftPos(a.num, a.den)
    ELSE -DriftPos(-a.num, a.den)

\* float(x) for a Decimal x (line 155) or a decimal literal (argparse type=float).
ToFloat(a) == [repr |-> a, drift |-> Drift(a)]

\* Decimal(str(f)) for a float f (line 153).
DecimalOfStr(f) == f.repr


\* ----------------------------------------------------------- input domains
\* Optional[...] values: None is <<>>, a value x is <<x>>.
None == <<>>
Some(x) == <<x>>

\* A JSON field of the exchange-info response as dict.get() returns it: the
\* key is absent (None), holds the empty string, or holds a numeric literal.
Absent == [kind |-> "absent", val |-> 0]
Empty == [kind |-> "empty", val |-> 0]
Num(k) == [kind |-> "num", val |-> k]

OrderTypes == {"MARKET", "LIMIT", "STOP_LIMIT"}
\* __main__ passes only BUY and SELL (argparse choices, line 293); the methods
\* check the side themselves, so "buy" and "HOLD" stand for their other callers.
Sides == {"BUY", "SELL", "buy", "HOLD"}

\* ticker['price'] literals: "-1", "0", "1", ...
PriceTexts == -1 .. MaxPrice
\* minNotional / notional literals
NotionalTexts == {1, 3}
\* LOT_SIZE.stepSize literals in tenths: "-0.1", "0", "0.1", ...
StepTexts == -1 .. MaxStep
\* --quantity literals in tenths: "-0.1", "0", "0.1", ...
QuantityTexts == -1 .. MaxQty

NotionalFields == {Absent, Empty} \cup {Num(k) : k \in NotionalTexts}
StepFields == {Absent} \cup {Num(k) : k \in StepTexts}

\* filters of the requested symbol (line 138), reduced to the fields read:
\*   mn1 = MIN_NOTIONAL.minNotional, mn2 = NOTIONAL.minNotional,
\*   mn3 = MIN_NOTIONAL.notional,    step = LOT_SIZE.stepSize (Absent: no LOT_SIZE).
FilterSets == [mn1 : NotionalFields, mn2 : NotionalFields, mn3 : NotionalFields,
               step : StepFields]

Arguments == [type : OrderTypes, side : Sides,
              quantity : {ToFloat(DecimalOfTenths(k)) : k \in QuantityTexts},
              auto_adjust : BOOLEAN]

\* What futures_create_order can do: return a full response, return a response
\* without 'orderId'/'status', raise BinanceAPIException, raise another Exception.
CreateOutcomes == {"response", "partial_response", "BinanceAPIException", "Exception"}

\* --------------------------------------------------------------- variables
VARIABLES
    pc,        \* position of the process
    args,      \* parsed command line: type, side, quantity, auto_adjust
    calls,     \* the client calls made so far, in order
    price,     \* Optional Decimal: price read from the ticker (line 133)
    filters,   \* Optional: filters of the symbol read from exchange info (line 138)
    quantity,  \* the local `quantity` of the running place_*_order
    check,     \* what the minimum-notional block (lines 130-162) did
    result,    \* Optional OrderResult returned to __main__
    recheck    \* second application of the minimum-notional check

vars == <<pc, args, calls, price, filters, quantity, check, result, recheck>>

\* ----------------------------------------------------------------- helpers
\* str.upper() on the side strings enumerated.
Upper(s) == IF s = "buy" THEN "BUY" ELSE s

\* bool(text) of a dict.get() result: None and "" are falsy.
Truthy(f) == f.kind = "num"

\* Python `a or b`.
Or(a, b) == IF Truthy(a) THEN a ELSE b

\* OrderResult (lines 51-63).  min_qty and min_notional are the two numbers the
\* "Quantity too small" message (line 159) carries; None in every other message.
OrderResult(success, order_type, qty, message, error) ==
    [success |-> success, order_type |-> order_type, quantity |-> qty,
     message |-> message, error |-> error, min_qty |-> None, min_notional |-> None]

Call(fn) == [fn |-> fn]
\* A futures_create_order call with its keyword arguments and what it did.
CreateCall(type, side, qty, outcome) ==
    [fn |-> "futures_create_order", type |-> type, side |-> side, quantity |-> qty,
     outcome |-> outcome]

CheckRecord(outcome, qty, min_notional, step_size, min_qty) ==
    [outcome |-> outcome, quantity |-> qty, min_notional |-> min_notional,
     step_size |-> step_size, min_qty |-> min_qty]

NoCheck == CheckRecord("none", ToFloat(DecimalOfInt(0)), None, None, None)

\* ------------------------------------------- minimum-notional check (130-162)
\* The probe with NOTIONAL.minNotional first.
MinNotionalStrSwapped(f) == Or(Or(f.mn2, f.mn1), f.mn3)

\* lines 141-145
MinNotionalStr(f) == Or(Or(f.mn1, f.mn2), f.mn3)

\* The multiplier with rounding=ROUND_HALF_UP.
MultiplierNearest(required_qty, step_size) ==
    ToIntegralRoundNearest(DecDiv(required_qty, step_size))

\* line 151
Multiplier(required_qty, step_size) ==
    ToIntegralRoundUp(DecDiv(required_qty, step_size))

\* The comparison with <= in place of <.
TooSmallOrEqual(qty, min_qty) == DecLeq(DecimalOfStr(qty), min_qty)

\* The comparison with Decimal(quantity) in place of Decimal(str(quantity)):
\* the float's exact binary value.
TooSmallBinary(qty, min_qty) ==
    \/ DecLess(qty.repr, min_qty)
    \/ qty.repr = min_qty /\ qty.drift < 0

\* line 153
TooSmall(qty, min_qty) == DecLess(DecimalOfStr(qty), min_qty)

\* An except clause that gives the order up.
FailClosed(qty, why) == CheckRecord("rejected", qty, None, None, None)

\* lines 160-162: any exception inside the block is swallowed and the order
\* goes on with the quantity as it is.
FailOpen(qty, why) == CheckRecord(why, qty, None, None, None)

\* lines 141-159, given the fetched price and filters.
MinNotionalCheck(p, f, qty, auto_adjust) ==
    LET min_notional_str == MinNotionalStr(f) IN
    IF ~Truthy(min_notional_str)
    THEN CheckRecord("no_min_notional", qty, None, None, None)
    ELSE
    LET min_notional == DecimalOfInt(min_notional_str.val) IN
    IF f.step.kind = "absent" THEN FailOpen(qty, "KeyError")
    ELSE
    LET step_size == DecimalOfTenths(f.step.val) IN
    IF DecIsZero(p) THEN FailOpen(qty, "DivisionByZero")
    ELSE
    LET required_qty == DecDiv(min_notional, p) IN
    IF DecIsZero(step_size) THEN FailOpen(qty, "DivisionByZero")
    ELSE
    LET multiplier == Multiplier(required_qty, step_size)
        min_qty == DecMul(multiplier, step_size)
    IN  IF TooSmall(qty, min_qty)
        THEN IF auto_adjust
             THEN CheckRecord("adjusted", ToFloat(min_qty),
                              Some(min_notional), Some(step_size), Some(min_qty))
             ELSE CheckRecord("rejected", qty,
                              Some(min_notional), Some(step_size), Some(min_qty))
        ELSE CheckRecord("accepted", qty,
                         Some(min_notional), Some(step_size), Some(min_qty))

\* Line 159 without its return.
AfterCheckAlwaysCreate(c) == "create"

\* line 159 returns; every other way out of the block reaches line 165.
AfterCheck(c) == IF c.outcome = "rejected" THEN "returned" ELSE "create"

\* line 159
TooSmallResult(c) ==
    [OrderResult(FALSE, None, None, "Quantity too small", None)
        EXCEPT !.min_qty = c.min_qty, !.min_notional = c.min_notional]

\* line 128 / line 212
InvalidSideResult == OrderResult(FALSE, None, None, "Invalid side", None)

\* the except clauses (184-191, 236-243, 277-284): error is the f-string
\* "<prefix>: ..." and is never empty.
Failure(exc, prefix, message) ==
    OrderResult(FALSE, None, None, message,
                Some(IF exc = "BinanceAPIException" THEN "API Error" \o prefix
                     ELSE "Unexpected error" \o prefix))

\* Only `except BinanceAPIException`: any other exception leaves the method.
AfterCreateApiOnly(outcome, order_type, qty, prefix, apiMessage, otherMessage) ==
    CASE outcome = "response" ->
            Some(OrderResult(TRUE, Some(order_type), Some(qty), "placed successfully", None))
      [] outcome = "BinanceAPIException" -> Some(Failure(outcome, prefix, apiMessage))
      [] OTHER -> None

\* What a place_*_order returns after futures_create_order did `outcome`
\* (171-191, 222-243, 265-284); None would be an exception leaving the method.
\* A response without 'orderId' or 'status' raises KeyError while the
\* OrderResult is built; `except Exception` catches it like any other.
AfterCreate(outcome, order_type, qty, prefix, apiMessage, otherMessage) ==
    CASE outcome = "response" ->
            Some(OrderResult(TRUE, Some(order_type), Some(qty), "placed successfully", None))
      [] outcome = "partial_response" -> Some(Failure("KeyError", prefix, otherMessage))
      [] outcome = "BinanceAPIException" -> Some(Failure(outcome, prefix, apiMessage))
      [] OTHER -> Some(Failure(outcome, prefix, otherMessage))

\* Where the process is once a place_*_order has produced r.
AfterReturn(r) == IF r = None THEN "crashed" ELSE "returned"

\* A valid side going straight to line 165.
MarketAfterSideSkipsCheck(side) ==
    IF Upper(side) \notin {"BUY", "SELL"} THEN "returned" ELSE "create"

\* lines 127-130: an invalid side returns, a valid one enters the check.
MarketAfterSide(side) ==
    IF Upper(side) \notin {"BUY", "SELL"} THEN "returned" ELSE "ticker"

\* ------------------------------------------------------------------ program
Init ==
    /\ pc = "main"
    /\ args \in Arguments
    /\ calls = <<>>
    /\ price = None
    /\ filters = None
    /\ quantity = args.quantity
    /\ check = NoCheck
    /\ result = None
    /\ recheck = None

\* lines 358-364 with BasicBot.__init__ (82-107): the client is built and
\* pinged; a failure is re-raised and __main__ exits with status 1.
BotInit ==
    /\ pc = "main"
    /\ \E ok \in BOOLEAN :
          /\ calls' = Append(calls, Call("futures_ping"))
          /\ pc' = IF ok THEN "dispatch" ELSE "exited"
    /\ UNCHANGED <<args, price, filters, quantity, check, result, recheck>>

\* lines 367-373
Dispatch ==
    /\ pc = "dispatch"
    /\ pc' = CASE args.type = "MARKET" -> "market"
              [] args.type = "LIMIT" -> "limit"
              [] OTHER -> "stop_limit"
    /\ UNCHANGED <<args, calls, price, filters, quantity, check, result, recheck>>

\* place_market_order, lines 124-128
MarketSideCheck ==
    /\ pc = "market"
    /\ pc' = MarketAfterSide(args.side)
    /\ result' = IF pc' = "returned" THEN Some(InvalidSideResult) ELSE result
    /\ UNCHANGED <<args, calls, price, filters, quantity, check, recheck>>

\* place_market_order, lines 132-133: the ticker call raises, or returns a price.
FetchTicker ==
    /\ pc = "ticker"
    /\ calls' = Append(calls, Call("futures_symbol_ticker"))
    /\ \/ /\ check' = FailOpen(quantity, "ticker_failed")
          /\ pc' = AfterCheck(check')
          /\ UNCHANGED price
       \/ \E p \in PriceTexts :
             /\ price' = Some(DecimalOfInt(p))
             /\ pc' = "exchange_info"
             /\ UNCHANGED check
    /\ result' = IF pc' = "returned" THEN Some(TooSmallResult(check')) ELSE result
    /\ UNCHANGED <<args, filters, quantity, recheck>>

\* place_market_order, lines 136-162: the exchange-info call raises, or the
\* symbol is not in info['symbols'] (StopIteration), or its filters are read
\* and the minimum-notional check runs on them.
FetchInfoAndCheck ==
    /\ pc = "exchange_info"
    /\ calls' = Append(calls, Call("futures_exchange_info"))
    /\ \/ /\ check' = FailOpen(quantity, "info_failed")
          /\ UNCHANGED filters
       \/ /\ check' = FailOpen(quantity, "StopIteration")
          /\ UNCHANGED filters
       \/ \E f \in FilterSets :
             /\ filters' = Some(f)
             /\ check' = MinNotionalCheck(price[1], f, quantity, args.auto_adjust)
    /\ quantity' = check'.quantity
    /\ pc' = AfterCheck(check')
    /\ result' = IF pc' = "returned" THEN Some(TooSmallResult(check')) ELSE result
    /\ UNCHANGED <<args, price, recheck>>

\* place_market_order, lines 165-191
MarketCreateOrder ==
    /\ pc = "create"
    /\ \E outcome \in CreateOutcomes :
          /\ calls' = Append(calls, CreateCall("MARKET", Upper(args.side), quantity, outcome))
          /\ result' = AfterCreate(outcome, "MARKET", quantity, "",
                                   "Order failed due to API error.",
                                   "Order failed due to an unexpected error.")
    /\ pc' = AfterReturn(result')
    /\ UNCHANGED <<args, price, filters, quantity, check, recheck>>

\* place_limit_order, lines 209-243
PlaceLimitOrder ==
    /\ pc = "limit"
    /\ IF Upper(args.side) \notin {"BUY", "SELL"}
       THEN /\ result' = Some(InvalidSideResult)
            /\ UNCHANGED calls
       ELSE \E outcome \in CreateOutcomes :
              /\ calls' = Append(calls, CreateCall("LIMIT", Upper(args.side), quantity, outcome))
              /\ result' = AfterCreate(outcome, "LIMIT", quantity, "",
                                       "Order failed due to API error.",
                                       "Order failed due to an unexpected error.")
    /\ pc' = AfterReturn(result')
    /\ UNCHANGED <<args, price, filters, quantity, check, recheck>>

\* place_stop_limit_order, lines 253-284: no side check; failures carry no message.
PlaceStopLimitOrder ==
    /\ pc = "stop_limit"
    /\ \E outcome \in CreateOutcomes :
          /\ calls' = Append(calls, CreateCall("STOP", Upper(args.side), quantity, outcome))
          /\ result' = AfterCreate(outcome, "STOP_LIMIT", quantity,
                                   " on Stop-Limit", "", "")
    /\ pc' = AfterReturn(result')
    /\ UNCHANGED <<args, price, filters, quantity, check, recheck>>

\* lines 376-384: the result is printed and logged; the process ends.
Report ==
    /\ pc = "returned"
    /\ pc' = "done"
    /\ UNCHANGED <<args, calls, price, filters, quantity, check, result, recheck>>

Next ==
    \/ BotInit
    \/ Dispatch
    \/ MarketSideCheck
    \/ FetchTicker
    \/ FetchInfoAndCheck
    \/ MarketCreateOrder
    \/ PlaceLimitOrder
    \/ PlaceStopLimitOrder
    \/ Report

Spec == Init /\ [][Next]_vars


\* ------------------------------------ the check applied twice (lines 141-159)
\* The minimum-notional check as a function of (price, filters, quantity,
\* auto_adjust): applied once to drawn inputs, then again to the quantity it let
\* through, with the same price and filters.
InitIdem ==
    /\ pc = "validate"
    /\ args \in {a \in Arguments : a.type = "MARKET" /\ a.side = "BUY"}
    /\ calls = <<>>
    /\ price \in {Some(DecimalOfInt(p)) : p \in PriceTexts}
    /\ filters \in {Some(f) : f \in FilterSets}
    /\ quantity = args.quantity
    /\ check = NoCheck
    /\ result = None
    /\ recheck = None

Validate ==
    /\ pc = "validate"
    /\ check' = MinNotionalCheck(price[1], filters[1], quantity, args.auto_adjust)
    /\ quantity' = check'.quantity
    /\ pc' = "validated"
    /\ UNCHANGED <<args, calls, price, filters, result, recheck>>

Revalidate ==
    /\ pc = "validated"
    /\ check.outcome \in {"accepted", "adjusted"}
    /\ \E again \in BOOLEAN :
          recheck' = Some([auto_adjust |-> again,
                           check |-> MinNotionalCheck(price[1], filters[1], quantity, again)])
    /\ pc' = "revalidated"
    /\ UNCHANGED <<args, calls, price, filters, quantity, check, result>>

NextIdem ==
    \/ Validate
    \/ Revalidate

SpecIdem == InitIdem /\ [][NextIdem]_vars

\* ------------------------------------------------------- state functions
IsCreate(c) == c.fn = "futures_create_order"
IsFetch(c) == c.fn \in {"futures_symbol_ticker", "futures_exchange_info"}
CreateCalls == SelectSeq(calls, IsCreate)
Called(fn) == \E i \in 1 .. Len(calls) : calls[i].fn = fn
Returned == pc \in {"returned", "done"}
ValidSide == Upper(args.side) \in {"BUY", "SELL"}

\* The first of the three keys holding a non-empty value, the last key if none does.
FirstNonEmpty(f) ==
    IF f.mn1.kind = "num" THEN f.mn1 ELSE IF f.mn2.kind = "num" THEN f.mn2 ELSE f.mn3

\* The first of the three keys that is present, the last key if none is.
FirstPresent(f) ==
    IF f.mn1.kind # "absent" THEN f.mn1 ELSE IF f.mn2.kind # "absent" THEN f.mn2 ELSE f.mn3

\* The price and the filters were read and carry a minimum notional and a step.
InputsRead ==
    /\ price # None
    /\ filters # None
    /\ FirstNonEmpty(filters[1]).kind = "num"
    /\ filters[1].step.kind = "num"

InPrice == price[1]
InNotional == DecimalOfInt(FirstNonEmpty(filters[1]).val)
InStep == DecimalOfTenths(filters[1].step.val)
InQty == args.quantity.repr

PositiveInputs ==
    /\ InputsRead
    /\ InPrice.num > 0 /\ InNotional.num > 0 /\ InStep.num > 0 /\ InQty.num > 0

NotionalMet == DecLeq(InNotional, DecMul(InQty, InPrice))

IsMultiple(a, b) == DecDiv(a, b).den = 1

\* m is the smallest multiple of step whose notional at price p reaches mn.
SmallestValid(m, p, mn, step) ==
    /\ IsMultiple(m, step)
    /\ DecLeq(mn, DecMul(m, p))
    /\ DecLess(DecMul(Dec(m.num * step.den - step.num * m.den, m.den * step.den), p), mn)

\* The order went to the exchange with exactly the requested quantity.
PassedUnchanged ==
    /\ check.outcome = "accepted"
    /\ quantity = args.quantity
    /\ pc \in {"create", "returned", "done"}
    /\ Returned => /\ Len(CreateCalls) = 1
                   /\ CreateCalls[1].quantity = args.quantity

\* Exact comparisons of a float's binary value with decimals.
FloatEquals(f, d) == f.repr = d /\ f.drift = 0
FloatIsMultiple(f, step) == f.drift = 0 /\ IsMultiple(f.repr, step)
FloatNotionalMet(f, p, mn) ==
    \/ DecLess(mn, DecMul(f.repr, p))
    \/ mn = DecMul(f.repr, p) /\ f.drift >= 0

\* ------------------------------------------------------------------ claims

C3_AdjustedQuantityIsExactStepMultiple ==
    (args.type = "MARKET" /\ PositiveInputs /\ ~NotionalMet /\ args.auto_adjust
        /\ Returned /\ result # None /\ result[1].success) =>
        /\ Len(CreateCalls) = 1
        /\ result[1].quantity = Some(CreateCalls[1].quantity)
        /\ check.min_qty # None
        /\ SmallestValid(check.min_qty[1], InPrice, InNotional, InStep)
        /\ FloatEquals(CreateCalls[1].quantity, check.min_qty[1])
        /\ FloatIsMultiple(CreateCalls[1].quantity, InStep)
        /\ FloatNotionalMet(CreateCalls[1].quantity, InPrice, InNotional)


\* What went wrong in the check, read off the calls and their results: the
\* ticker call or the exchange-info call did not hand over its data (it raised,
\* or the symbol was not listed), LOT_SIZE is missing, or none of the three
\* minimum-notional keys is present.
TickerUnavailable == Called("futures_symbol_ticker") /\ price = None
InfoUnavailable == Called("futures_exchange_info") /\ filters = None
NoNotionalKey ==
    /\ filters # None
    /\ filters[1].mn1 = Absent /\ filters[1].mn2 = Absent /\ filters[1].mn3 = Absent
NoLotSize == filters # None /\ filters[1].step = Absent
FetchUnavailable == TickerUnavailable \/ InfoUnavailable \/ NoNotionalKey \/ NoLotSize

\* C4: when the price or exchange-info fetch fails, the symbol is not listed,
\* LOT_SIZE is missing or no minimum-notional key is present, place_market_order
\* neither rejects nor returns early: it calls futures_create_order with the
\* requested quantity, whatever auto_adjust is.
C4_FailOpenSubmitsRequestedQuantity ==
    (args.type = "MARKET" /\ FetchUnavailable) =>
        /\ pc \in {"create", "returned", "done"}
        /\ check.outcome # "rejected"
        /\ quantity = args.quantity
        /\ Returned => /\ Len(CreateCalls) = 1
                       /\ CreateCalls[1].quantity = args.quantity
                       /\ calls[Len(calls)] = CreateCalls[1]

C4_Witness ==
    /\ pc = "done" /\ args.type = "MARKET" /\ args.auto_adjust
    /\ NoLotSize /\ ~NoNotionalKey
    /\ Len(CreateCalls) = 1
    /\ CreateCalls[1].quantity = args.quantity

\* A non-positive price, requested quantity or step size reached place_market_order.
InvalidInput ==
    \/ args.quantity.repr.num <= 0
    \/ price # None /\ price[1].num <= 0
    \/ filters # None /\ filters[1].step.kind = "num" /\ filters[1].step.val <= 0

\* C5 as stated: a non-positive price, quantity or step size makes
\* place_market_order return a failure without calling futures_create_order.
C5_InvalidInputNeverSubmitted ==
    (args.type = "MARKET" /\ InvalidInput) =>
        /\ CreateCalls = <<>>
        /\ Returned => (result # None /\ result[1].success = FALSE)

\* C6: the ticker and exchange-info fetches happen only for a MARKET order and
\* there before futures_create_order, which a MARKET order never reaches without
\* the ticker fetch; LIMIT and STOP_LIMIT orders fetch nothing and submit the
\* user's quantity.
C6_FetchesOnlyBeforeMarketCreate ==
    /\ \A i \in 1 .. Len(calls) :
          IsFetch(calls[i]) =>
              /\ args.type = "MARKET"
              /\ \A j \in 1 .. Len(calls) : IsCreate(calls[j]) => i < j
    /\ \A j \in 1 .. Len(calls) :
          IsCreate(calls[j]) =>
              IF args.type = "MARKET"
              THEN \E i \in 1 .. j - 1 : calls[i].fn = "futures_symbol_ticker"
              ELSE calls[j].quantity = args.quantity
    /\ (pc \in {"create"} /\ args.type = "MARKET") => Called("futures_symbol_ticker")

C6_Witness ==
    /\ pc = "done" /\ args.type = "MARKET"
    /\ Len(calls) = 4
    /\ calls[2].fn = "futures_symbol_ticker"
    /\ calls[3].fn = "futures_exchange_info"
    /\ IsCreate(calls[4])

Compared == check.outcome \in {"accepted", "adjusted", "rejected"}

\* C8 as stated: the minimum notional is the value of the first PRESENT key in
\* the order MIN_NOTIONAL.minNotional, NOTIONAL.minNotional,
\* MIN_NOTIONAL.notional, and the check is skipped only when none is present.
C8_FirstPresentKeyIsUsed ==
    (filters # None) =>
        /\ check.outcome = "no_min_notional" => NoNotionalKey
        /\ Compared => /\ FirstPresent(filters[1]).kind = "num"
                       /\ check.min_notional
                            = Some(DecimalOfInt(FirstPresent(filters[1]).val))

\* C8 amended: the minimum notional is the value of the first key, in that
\* order, that holds a non-empty value; a later key is used only when every
\* earlier one is absent or empty, and the check is skipped exactly when none
\* of the three holds a non-empty value.
C8_FirstNonEmptyKeyIsUsed ==
    (filters # None) =>
        /\ check.outcome = "no_min_notional"
              <=> FirstNonEmpty(filters[1]).kind # "num"
        /\ check.outcome = "no_min_notional" =>
              /\ quantity = args.quantity
              /\ pc \in {"create", "returned", "done"}
              /\ Returned => CreateCalls[1].quantity = args.quantity
        /\ Compared => check.min_notional
                         = Some(DecimalOfInt(FirstNonEmpty(filters[1]).val))

C8_Witness ==
    /\ filters # None /\ Compared
    /\ filters[1].mn1 = Absent
    /\ filters[1].mn2.kind = "num"
    /\ filters[1].mn3.kind = "num"
    /\ filters[1].mn3 # filters[1].mn2
    /\ check.min_notional = Some(DecimalOfInt(filters[1].mn2.val))

\* C9: futures_create_order is called at most once per run, and not at all when
\* the request is rejected locally ("Quantity too small", an invalid side given
\* to place_market_order or place_limit_order) or the client cannot be set up.
C9_AtMostOneCreateNoneAfterLocalRejection ==
    /\ Len(CreateCalls) <= 1
    /\ check.outcome = "rejected" => CreateCalls = <<>>
    /\ (result # None /\ result[1].message = "Quantity too small") => CreateCalls = <<>>
    /\ (args.type \in {"MARKET", "LIMIT"} /\ ~ValidSide) => CreateCalls = <<>>
    /\ pc = "exited" => CreateCalls = <<>>

C9_Witness ==
    /\ pc = "done"
    /\ check.outcome = "rejected"
    /\ result[1].message = "Quantity too small"
    /\ CreateCalls = <<>>

\* C10: no place_*_order lets an exception escape; each returns an OrderResult,
\* with success only if futures_create_order was called and returned a response,
\* and with success = false and a non-empty error when it raised.
C10_AlwaysAnOrderResult ==
    /\ pc # "crashed"
    /\ Returned =>
          /\ result # None
          /\ result[1].success =>
                /\ Len(CreateCalls) = 1
                /\ CreateCalls[1].outcome = "response"
          /\ \A i \in 1 .. Len(CreateCalls) :
                CreateCalls[i].outcome \in {"BinanceAPIException", "Exception"} =>
                    /\ result[1].success = FALSE
                    /\ result[1].error # None
                    /\ result[1].error[1] # ""

C10_Witness ==
    /\ pc = "done"
    /\ args.type = "STOP_LIMIT"
    /\ Len(CreateCalls) = 1
    /\ CreateCalls[1].outcome = "Exception"
    /\ result[1].success = FALSE
    /\ result[1].error # None

=============================================================================
